---- MODULE Spec2Model ----
(***************************************************************************)
(* Model of the tone-trace fingerprinting engine (src/src/audio_analyzer.py)*)
(* and of the result presentation in src/src/ui.py.                        *)
(*                                                                         *)
(* Several specifications share the variables below; each one exercises    *)
(* one entry point of AudioAnalyzer on inputs drawn from bounded sets:     *)
(*   SpecHashes   _generar_hashes on an arbitrary caller-supplied list     *)
(*   SpecMatcher  _comparar_hashes on two arbitrary fingerprint lists      *)
(*   SpecHuellas  _huellas_digitales on an abstracted sample buffer        *)
(*   Spec         find_match_in_all_audios / find_similar_audio over the   *)
(*                audio directory, followed by the UI's result update      *)
(*   SpecInvalid  the two fingerprinting calls with out-of-domain arguments*)
(*   SpecSelfMatch two produced fingerprints compared with each other      *)
(*   SpecRecorder the recording thread of src/src/recorder.py and the UI   *)
(*                callbacks of start_recording that run beside it          *)
(*   SpecFigure   analysis threads that call _huellas_digitales on the one *)
(*                analyzer of the UI                                       *)
(***************************************************************************)
EXTENDS Integers, Sequences, FiniteSets, Bags, TLC

VARIABLES
    pc,             \* where the call in flight is: "idle", "done", "raised", "shown"
    picos,          \* the caller's peak list handed to _generar_hashes
    valor_fan,      \* the valor_fan argument of _generar_hashes
    hashes,         \* list(_generar_hashes(picos, valor_fan)): <<hash, t1>> pairs
    yields,         \* the generator frame's locals at each yield (i, j, freq1, ...)
    hashes1,        \* first argument of _comparar_hashes
    hashes2,        \* second argument of _comparar_hashes
    score,          \* value returned by _comparar_hashes
    audio_dir,      \* the *.wav files of self.audio_dir, in glob order
    target_file,    \* the file analysed (recorder.last_audio_file)
    block_duration, \* argument of find_match_in_all_audios
    min_matches,    \* argument of find_match_in_all_audios
    similar_files,  \* value returned by find_match_in_all_audios
    listbox,        \* lines shown in the UI's similarity_listbox
    muestras,       \* the sample buffer handed to _huellas_digitales (abstracted)
    tamano_ventana, \* the tamano_ventana argument of _huellas_digitales
    relacion_superposicion, \* its relacion_superposicion argument, in percent
    amp_min,        \* the amp_min argument of _huellas_digitales
    espectro,       \* locals of the call: hop_size, n_frames, frames built, figure shown
    peaks_out,      \* value returned by _huellas_digitales
    ya_graficado,   \* AudioAnalyzer._ya_graficado
    is_recording_cancelled, \* recorder.is_recording_cancelled
    last_audio_file,\* recorder.last_audio_file: 0 for None, else the recording that wrote it
    wav_files,      \* the recordings whose wav.write completed, in order
    rec_pc,         \* where the recording thread is in record_audio
    poll_i,         \* the loop variable i of record_audio
    duration,       \* the duration argument of record_audio
    cancel_btn,     \* the cancel button of start_recording: "absent", "shown", "pressed", "destroyed"
    status_log,     \* the messages the current recording passed to update_status
    cancel_at,      \* where the recording thread was when cancel_recording() was called
    recordings,     \* how many times start_recording has run
    widget_touch,   \* the <<widget, thread>> pairs: which thread has used which widget
    figures,        \* how many times plt.show() has been called for this analyzer
    hilo_pc,        \* per analysis thread: where it is in _huellas_digitales
    hilo_calls      \* per analysis thread: the calls of _huellas_digitales it has made

vars == << pc, picos, valor_fan, hashes, yields, hashes1, hashes2, score,
           audio_dir, target_file, block_duration, min_matches, similar_files,
           listbox, muestras, tamano_ventana, relacion_superposicion, amp_min,
           espectro, peaks_out, ya_graficado, is_recording_cancelled,
           last_audio_file, wav_files, rec_pc, poll_i, duration, cancel_btn,
           status_log, cancel_at, recordings, widget_touch, figures, hilo_pc,
           hilo_calls >>

hashVars == << picos, valor_fan, hashes, yields >>
matchVars == << hashes1, hashes2, score >>
findVars == << audio_dir, target_file, block_duration, min_matches,
               similar_files, listbox >>
huellasVars == << muestras, tamano_ventana, relacion_superposicion, amp_min,
                 espectro, peaks_out >>
recVars == << is_recording_cancelled, last_audio_file, wav_files, rec_pc, poll_i,
             duration, cancel_btn, status_log, cancel_at, recordings >>
plotVars == << figures, hilo_pc, hilo_calls >>
analyzerVars == << pc, hashVars, matchVars, findVars, huellasVars, ya_graficado,
                  plotVars >>

-----------------------------------------------------------------------------
(* Program constants of audio_analyzer.py *)

IDX_FREQ_I == 0
IDX_TIME_J == 1
FS_DEFAULT == 44100
EFFECT_WINDOW_SIZE == 1024
\* RELATIONSHIP_OVERLAP_BY_DEFECT = 0.5, kept in percent to stay in the integers
RELATIONSHIP_OVERLAP_BY_DEFECT == 50
DEFAULT_FAN_VALUE == 15
MIN_DELTA_TIME_HASH == 0
MAX_DELTA_TIME_HASH == 200
ORDER_PICES == TRUE
FOOTPRINT_REDUCTION == 20
\* amp_min=-60, the default of _huellas_digitales
AMP_MIN_DEFAULT == -60
\* recorder.py: "for i in range(duration * 10)", 10 checks per second
CHECKS_PER_SECOND == 10

-----------------------------------------------------------------------------
(* Bounds of the model *)

\* longest peak list handed to _generar_hashes in SpecHashes
MaxPeaks == 3
\* longest fingerprint list handed to _comparar_hashes in SpecMatcher
MaxHashes == 2
\* most *.wav files in the audio directory in Spec
MaxFiles == 2
\* most recordings started one after the other in SpecRecorder
MaxRecordings == 2
\* analysis threads alive at once in SpecFigure (one per press of "analyze")
MaxThreads == 2
\* most calls of _huellas_digitales by one analysis thread in SpecFigure
MaxCalls == 2

\* frequency bins and time frames the peaks are drawn from
Freqs == {1, 2}
Times == {0, 5, 10, 205, 250}
Peaks == Freqs \X Times
\* the valor_fan arguments tried (the repository only ever passes the default)
FanValues == {1, 2, 3, DEFAULT_FAN_VALUE}

-----------------------------------------------------------------------------
(* Generic helpers *)

Min2(a, b) == IF a <= b THEN a ELSE b

SeqsUpTo(S, n) == UNION { [1..k -> S] : k \in 0..n }

Range(s) == { s[k] : k \in 1..Len(s) }

\* the bag (multiset) of the elements of a sequence
BagOfSeq(s) ==
    [ x \in Range(s) |-> Cardinality({ k \in 1..Len(s) : s[k] = x }) ]

-----------------------------------------------------------------------------
(* _generar_hashes *)

\* hashlib.sha1(s.encode('utf-8')).hexdigest(), tabulated for the constellation
\* strings the model's peaks can produce (values computed with hashlib)
sha1_hexdigest(s) ==
    CASE s = "1|1|-250" -> "002059fba246d55ceb9331a3885836278b083d8c"
      [] s = "1|1|-245" -> "87ad270e9c1eb183181136ea458aaa778421e912"
      [] s = "1|1|-240" -> "c797e682427f837ab345515c76614c74cbff9e74"
      [] s = "1|1|-205" -> "2168725c2bdcb4b1ed33bc674dd281daa1133ef2"
      [] s = "1|1|-200" -> "78c59f0933a711627388edf240f86f54bf3b4a9a"
      [] s = "1|1|-195" -> "c88de4a9a44d7102b8eb1d9b070a64dddb6e60b2"
      [] s = "1|1|-45" -> "f73ed2af27410a25c458610e6d9b184b2482be75"
      [] s = "1|1|-10" -> "28d652617f3c30ba7ae72062417c2389a98a0055"
      [] s = "1|1|-5" -> "b86ea2869eca05c1172567319a32a306ce61b5c2"
      [] s = "1|1|0" -> "3ae7bd26432d18edd9d722b2825388cabc33f0ac"
      [] s = "1|1|5" -> "7edaa0e4c9045b3d5b16bf47c1473fcf27aa9cd5"
      [] s = "1|1|10" -> "d6c3c2ed1369a07b3bdab77b154dcc0224106dc0"
      [] s = "1|1|45" -> "f11242272d5c9ecba1498519e488628f82852dc0"
      [] s = "1|1|195" -> "9b0ca524b04e68605cee00c7ce79863873658266"
      [] s = "1|1|200" -> "95beec8a68a50e1368aec98c19dcfa3ea5c28297"
      [] s = "1|1|205" -> "3ef8e1033a6b9550d70fc73c709da3550b8d7e67"
      [] s = "1|1|240" -> "10d975232a92d16b60c144e079d47bff49fd2fcb"
      [] s = "1|1|245" -> "94bced0a2fef27ecb4a1fb5d8ce98cff4927834d"
      [] s = "1|1|250" -> "d811830651f32aeea77083bfa6889b94c1602282"
      [] s = "1|2|-250" -> "dbfe332fda2c128493847f17ab3892e783169042"
      [] s = "1|2|-245" -> "7d3faeb7215cfd7733e4f672c0f4c951c4c76c50"
      [] s = "1|2|-240" -> "a9d99206ea29f3584384dca3b00cd59b7ad4a252"
      [] s = "1|2|-205" -> "648fc75d52320c05ea9cd967cd4cd1dc7ade3e5c"
      [] s = "1|2|-200" -> "58ab42f70bf597084302d8f175a0bb21587b175f"
      [] s = "1|2|-195" -> "ae62ae59c65432e4a5583a3e27d49f1993b269b7"
      [] s = "1|2|-45" -> "6bc834f78ed6f2ae712a5ceca7a5e577f8d90d5c"
      [] s = "1|2|-10" -> "75f2607add4f5e07ff13d9db14b6e9d8a0539579"
      [] s = "1|2|-5" -> "ba834ce5e1e05b5b67c9ebf72fdb71f0d8ee4566"
      [] s = "1|2|0" -> "72234719b2807360cf9bd0101abd12fc1081a344"
      [] s = "1|2|5" -> "9f8416ec36b0457d789af0a8c02b73995b7b57fd"
      [] s = "1|2|10" -> "8534cf96301bc40c7310aade7b4853114efcaf1a"
      [] s = "1|2|45" -> "8a731214f771571374d49662294d18395b5a1ad2"
      [] s = "1|2|195" -> "6025d281f6a1f25549849f5a3544eff410fa23e5"
      [] s = "1|2|200" -> "58f694beaf0c35391dc3c801361b6d59e10d646b"
      [] s = "1|2|205" -> "ab0b68ba3d9501cd0ad008046d9515012a6876c3"
      [] s = "1|2|240" -> "01bb360139189288ae942b998bd29b217eec79c0"
      [] s = "1|2|245" -> "90bbf660ca3ab4f3e7665e2b37fe02d774e12082"
      [] s = "1|2|250" -> "654e4c9fa517ca78585c7bb4fefeb2e6a5f2d8e1"
      [] s = "2|1|-250" -> "2b85d362c3d5207037f41a25f5874899b76fb886"
      [] s = "2|1|-245" -> "779903eb78dd8215beedcd029761ddeabfe2c17c"
      [] s = "2|1|-240" -> "eb7cbbba5459cfd77c0fc1cb367a02cb4bc959fc"
      [] s = "2|1|-205" -> "5cfc8bf20c7c083594c509674d09f3b649da9468"
      [] s = "2|1|-200" -> "f6b320b3b4fcf4f2c4e5ed23b3b6f9c0bee0c8ed"
      [] s = "2|1|-195" -> "b759c295e0836651d22e2f39bc7b8cd900a25863"
      [] s = "2|1|-45" -> "ad9f7192b3bef255b5f350db13a2cd6523ebe104"
      [] s = "2|1|-10" -> "407ab6d573708fc85111aee66c72ee7badfafaba"
      [] s = "2|1|-5" -> "c1b003f1c745e149667d463a881e903459ca3047"
      [] s = "2|1|0" -> "25f8f64429122dfe4cf31ea07e5164a1a36fcb1c"
      [] s = "2|1|5" -> "c4b415c73ac0b12df87ff82a32631f7cde9ae437"
      [] s = "2|1|10" -> "d82e9519358c15071274574821af0a1023c3fe59"
      [] s = "2|1|45" -> "3a9a351dcf982a3e236715483e10c901623006a2"
      [] s = "2|1|195" -> "8b8cbb297e48fa0b224e72a26f8e554c1f023d94"
      [] s = "2|1|200" -> "b5e7628088a113ae3b7c6dd76b5a79879b13b4cd"
      [] s = "2|1|205" -> "9983fd153de847355d1fb9eda1800be5f17c389f"
      [] s = "2|1|240" -> "f3fa4eae38b53c371b3afd18ba523fd7dce4c1fb"
      [] s = "2|1|245" -> "daa03167c7eb1230c91dd5d34eb190604ee00864"
      [] s = "2|1|250" -> "973d2dc6b40acee37350bcec72d77eb7b61a860c"
      [] s = "2|2|-250" -> "94becd3fca6efb1c367610a0d61ae3ea43ea45e0"
      [] s = "2|2|-245" -> "415f79e42c1cc23528b70518cc9e4695a6a217b7"
      [] s = "2|2|-240" -> "dc9116ddfffde8fa31435688299270dabe723011"
      [] s = "2|2|-205" -> "d7a4acb3c34aa1ac2de56d7693ebc3824f4a0d83"
      [] s = "2|2|-200" -> "d08a12904e277a3010ec38ccd56a6aa3e1f72e08"
      [] s = "2|2|-195" -> "e77743d9c27b80821809f11f7aa35d7bc965c3ad"
      [] s = "2|2|-45" -> "529b61d9be9c716f50e58c9297d0ee943a148b99"
      [] s = "2|2|-10" -> "0a2c0990953f4cbd461a94ed125dd16f74a89907"
      [] s = "2|2|-5" -> "bb6f9e65539327b8a0661c69b263eaec2290929d"
      [] s = "2|2|0" -> "0d32f4d9f9762a9d80110187a76970efe0bf7bf8"
      [] s = "2|2|5" -> "642f1b5959774ee0c5a9b89df2629ef9a0f5677f"
      [] s = "2|2|10" -> "c881faa35b748e1fdeccccda02841cd778e3ba0c"
      [] s = "2|2|45" -> "438807c47b55a195ad7da3b523e013dc2c48b3e2"
      [] s = "2|2|195" -> "4d96812f09950c71f1e3814e4ba44717a92ef42f"
      [] s = "2|2|200" -> "c6b728a6af19e5ba84199986fb66500edc97ff9a"
      [] s = "2|2|205" -> "88085002a85813da404a354878315211e31aa410"
      [] s = "2|2|240" -> "910ad203297a9ca3190782bb80d42ef6504638f5"
      [] s = "2|2|245" -> "b743717be5fcfb3b08c125afe36f123a8872cc33"
      [] s = "2|2|250" -> "0ffb874ef9d5df6f9a3ed0f8a6a01f349e0c5538"

\* f"{freq1}|{freq2}|{t_delta}"
constellation_string(freq1, freq2, t_delta) ==
    ToString(freq1) \o "|" \o ToString(freq2) \o "|" \o ToString(t_delta)

\* h.hexdigest()[0:FOOTPRINT_REDUCTION]
hash_truncated(freq1, freq2, t_delta) ==
    SubSeq(sha1_hexdigest(constellation_string(freq1, freq2, t_delta)),
           1, FOOTPRINT_REDUCTION)

\* the position of x in a list already sorted by time, after every element
\* whose time is <= x's (what keeps the sort stable)
RECURSIVE InsertByTime(_, _)
InsertByTime(s, x) ==
    IF s = <<>> THEN << x >>
    ELSE IF s[Len(s)][IDX_TIME_J + 1] <= x[IDX_TIME_J + 1]
         THEN Append(s, x)
         ELSE Append(InsertByTime(SubSeq(s, 1, Len(s) - 1), x), s[Len(s)])

\* picos.sort(key=lambda x: x[1]): list.sort is stable
RECURSIVE SortByTime(_)
SortByTime(s) ==
    IF Len(s) <= 1 THEN s
    ELSE InsertByTime(SortByTime(SubSeq(s, 1, Len(s) - 1)), s[Len(s)])

\* variant: the list is hashed in the order the caller passed it
picos_unsorted(p) == p

\* if ORDER_PICES: picos.sort(...)   (in place: the caller's list is reordered)
picos_sorted(p) == IF ORDER_PICES THEN SortByTime(p) ELSE p

\* variant: the upper bound of the window taken as exclusive
delta_in_window_exclusive(t_delta) ==
    MIN_DELTA_TIME_HASH <= t_delta /\ t_delta < MAX_DELTA_TIME_HASH

\* if MIN_DELTA_TIME_HASH <= t_delta <= MAX_DELTA_TIME_HASH
delta_in_window(t_delta) ==
    MIN_DELTA_TIME_HASH <= t_delta /\ t_delta <= MAX_DELTA_TIME_HASH

\* the body of the inner loop for 0-based anchor index i and step j: the
\* frame's locals at the yield, or nothing when the pair yields nothing
yield_at(p, i, j) ==
    IF (i + j) < Len(p)
    THEN LET freq1 == p[i + 1][IDX_FREQ_I + 1]
             t1 == p[i + 1][IDX_TIME_J + 1]
             freq2 == p[i + j + 1][IDX_FREQ_I + 1]
             t2 == p[i + j + 1][IDX_TIME_J + 1]
             t_delta == t2 - t1
         IN  IF delta_in_window(t_delta)
             THEN << [ i |-> i, j |-> j, freq1 |-> freq1, freq2 |-> freq2,
                       t_delta |-> t_delta, t1 |-> t1,
                       hash |-> hash_truncated(freq1, freq2, t_delta) ] >>
             ELSE << >>
    ELSE << >>

\* variant: for j in range(1, valor_fan + 1)
RECURSIVE inner_loop_inclusive(_, _, _, _)
inner_loop_inclusive(p, i, j, fan) ==
    IF j > fan THEN << >>
    ELSE yield_at(p, i, j) \o inner_loop_inclusive(p, i, j + 1, fan)

\* for j in range(1, valor_fan)
RECURSIVE inner_loop(_, _, _, _)
inner_loop(p, i, j, fan) ==
    IF j >= fan THEN << >>
    ELSE yield_at(p, i, j) \o inner_loop(p, i, j + 1, fan)

\* for i in range(len(picos))
RECURSIVE outer_loop(_, _, _)
outer_loop(p, i, fan) ==
    IF i >= Len(p) THEN << >>
    ELSE inner_loop(p, i, 1, fan) \o outer_loop(p, i + 1, fan)

\* the frames of every yield of _generar_hashes(p, fan), in order
generar_yields(p, fan) == outer_loop(picos_sorted(p), 0, fan)

\* variant: yield (hash_truncated, t2), the target's time
yielded_target_time(fr) == << fr.hash, fr.t1 + fr.t_delta >>

\* variant: yield the hash without its reference time
yielded_sin_tiempo(fr) == << fr.hash, 0 >>

\* yield (hash_truncated, t1)
yielded(fr) == << fr.hash, fr.t1 >>

\* list(self._generar_hashes(p, fan))
generar_hashes(p, fan) ==
    LET ys == generar_yields(p, fan)
    IN  [ k \in 1..Len(ys) |-> yielded(ys[k]) ]

-----------------------------------------------------------------------------
(* _comparar_hashes *)

\* variant: the offsets are added
desplazamiento_suma(offset1, offset2) == offset2 + offset1

\* desplazamiento_temporal = offset2 - offset1
desplazamiento_temporal(offset1, offset2) == offset2 - offset1

\* the inner loop "for hash2, offset2 in hashes2" for one entry of hashes1:
\* the offsets appended to coincidencias, in order
RECURSIVE coincidencias_de(_, _, _)
coincidencias_de(e1, h2, k) ==
    IF k > Len(h2) THEN << >>
    ELSE (IF e1[1] = h2[k][1]
          THEN << desplazamiento_temporal(e1[2], h2[k][2]) >>
          ELSE << >>) \o coincidencias_de(e1, h2, k + 1)

\* the outer loop "for hash1, offset1 in hashes1": the list coincidencias
RECURSIVE coincidencias(_, _, _)
coincidencias(h1, h2, k) ==
    IF k > Len(h1) THEN << >>
    ELSE coincidencias_de(h1[k], h2, 1) \o coincidencias(h1, h2, k + 1)

\* Counter(coincidencias): offset -> number of occurrences
Counter(s) == BagOfSeq(s)

\* max(diff_counter.values())
max_values(c) ==
    CHOOSE v \in { c[d] : d \in DOMAIN c } : \A d \in DOMAIN c : c[d] <= v

\* variant: every colliding pair counts, whatever its offset
comparar_hashes_sin_offset(h1, h2) == Len(coincidencias(h1, h2, 1))

\* self._comparar_hashes(h1, h2)
comparar_hashes(h1, h2) ==
    LET co == coincidencias(h1, h2, 1)
    IN  IF co = << >> THEN 0 ELSE max_values(Counter(co))

-----------------------------------------------------------------------------
(* _huellas_digitales                                                      *)
(*                                                                         *)
(* A sample buffer is abstracted to what the numeric stages make of it:    *)
(*   n      len(muestras)                                                  *)
(*   ceros  the frames whose magnitude spectrum is entirely zero           *)
(*   picos  the cells <<freq_bin, time_frame, dB>> of the spectrogram that *)
(*          are local maxima outside the eroded background                 *)
(***************************************************************************)

\* hop_size = int(tamano_ventana * (1 - RELATIONSHIP_OVERLAP_BY_DEFECT))
\* (the relacion_superposicion argument is not read)
\* int(x) of the quotient num/den: truncation towards zero
int_trunc(num, den) ==
    IF num >= 0 THEN num \div den ELSE -((-num) \div den)

hop_size(ventana, solape) ==
    int_trunc(ventana * (100 - RELATIONSHIP_OVERLAP_BY_DEFECT), 100)

\* "// hop_size" raises ZeroDivisionError when the division is evaluated
\* with hop_size = 0
n_frames_raises(n, ventana, hop) == n >= ventana /\ hop = 0

\* a frame count that also counts a trailing partial window
n_frames_partial(n, ventana, hop) ==
    IF n >= ventana THEN 1 + ((n - ventana + hop - 1) \div hop) ELSE 0

\* n_frames = 1 + (len(muestras) - tamano_ventana) // hop_size
\*            if len(muestras) >= tamano_ventana else 0
n_frames(n, ventana, hop) ==
    IF n >= ventana THEN 1 + ((n - ventana) \div hop) ELSE 0

\* frame = muestras[start:end]; if len(frame) < tamano_ventana: continue
\* (frame i is processed only when its slice is a whole window)
frame_is_full(n, ventana, hop, i) ==
    Min2(n, i * hop + ventana) - Min2(n, i * hop) >= ventana

\* the frames the loop "for i in range(n_frames)" appends to arr2D
frames_built(n, ventana, hop, nf) ==
    { i \in 0..(nf - 1) : frame_is_full(n, ventana, hop, i) }

\* _reemplazarCeros raises ValueError (np.min of an empty selection) on a
\* processed frame whose spectrum has no non-zero value
reemplazarCeros_raises(m, ventana, hop, nf) ==
    \E i \in m.ceros : i \in 0..(nf - 1) /\ frame_is_full(m.n, ventana, hop, i)

\* arr2D.size > 0: some frame was appended
arr2D_nonempty(n, ventana, hop, nf) ==
    \E i \in 0..(nf - 1) : frame_is_full(n, ventana, hop, i)

\* np.min(arr2D) in the debug print raises ValueError on a zero-size array
stats_raises(n, ventana, hop, nf) == ~arr2D_nonempty(n, ventana, hop, nf)

\* if not self._ya_graficado and arr2D.size > 0: the figure is shown
figure_shown(ya, nonempty) == ~ya /\ nonempty

\* detected_peaks = maxima & ~eroded_background, over the cells of arr2D
detected_peaks(m, ventana, hop, nf) ==
    { c \in m.picos : c[2] \in 0..(nf - 1) /\ frame_is_full(m.n, ventana, hop, c[2]) }

\* np.where(detected_peaks) enumerates row-major: by freq_bin, then time_frame
RECURSIVE np_where(_)
np_where(cells) ==
    IF cells = {} THEN << >>
    ELSE LET c == CHOOSE x \in cells : \A y \in cells :
                      \/ x[1] < y[1]
                      \/ (x[1] = y[1] /\ x[2] <= y[2])
         IN  << c >> \o np_where(cells \ {c})

\* peaks_filtered = [x for x in peaks if x[2] > amp_min]
amp_keeps(amp, floor) == amp > floor

RECURSIVE peaks_filtered(_, _)
peaks_filtered(peaks, floor) ==
    IF peaks = << >> THEN << >>
    ELSE (IF amp_keeps(peaks[1][3], floor) THEN << peaks[1] >> ELSE << >>)
         \o peaks_filtered(Tail(peaks), floor)

\* return list(zip(frecuencia_picos, tiempo_picos))
zip_freq_time(peaks) == [ k \in 1..Len(peaks) |-> << peaks[k][1], peaks[k][2] >> ]

\* self._huellas_digitales(m, tamano_ventana=..., relacion_superposicion=...,
\* amp_min=...) on an analyzer whose _ya_graficado is ya: what it raises or
\* returns, and the analyzer's flag afterwards
huellas_digitales(m, ventana, solape, floor, ya) ==
    LET hop == hop_size(ventana, solape)
        nf == n_frames(m.n, ventana, hop)
    IN  IF n_frames_raises(m.n, ventana, hop)
        THEN [ raised |-> TRUE, peaks |-> << >>, hop_size |-> hop,
               n_frames |-> 0, shown |-> FALSE, ya_graficado |-> ya ]
        ELSE
        IF reemplazarCeros_raises(m, ventana, hop, nf) \/ stats_raises(m.n, ventana, hop, nf)
        THEN [ raised |-> TRUE, peaks |-> << >>, hop_size |-> hop,
               n_frames |-> nf, shown |-> FALSE, ya_graficado |-> ya ]
        ELSE [ raised |-> FALSE,
               peaks |-> zip_freq_time(peaks_filtered(
                             np_where(detected_peaks(m, ventana, hop, nf)), floor)),
               hop_size |-> hop, n_frames |-> nf,
               shown |-> figure_shown(ya, arr2D_nonempty(m.n, ventana, hop, nf)),
               ya_graficado |->
                   (ya \/ figure_shown(ya, arr2D_nonempty(m.n, ventana, hop, nf))) ]

-----------------------------------------------------------------------------
(* _extraer_hashes_audio and find_similar_audio *)

\* print(f"... min={np.min(y)}, max={np.max(y)}") raises ValueError on a file
\* that holds no samples
load_raises(file) == file.n = 0

\* self._extraer_hashes_audio(file) on an analyzer whose flag is ya
extraer_hashes_audio(file, ya) ==
    IF load_raises(file)
    THEN [ raised |-> TRUE, hashes |-> << >>, ya_graficado |-> ya ]
    ELSE LET h == huellas_digitales(file, EFFECT_WINDOW_SIZE,
                                    RELATIONSHIP_OVERLAP_BY_DEFECT, AMP_MIN_DEFAULT, ya)
         IN  IF h.raised
             THEN [ raised |-> TRUE, hashes |-> << >>, ya_graficado |-> h.ya_graficado ]
             ELSE [ raised |-> FALSE,
                    hashes |-> generar_hashes(h.peaks, DEFAULT_FAN_VALUE),
                    ya_graficado |-> h.ya_graficado ]

\* variant: if score >= 0
qualifies_zero(s) == s >= 0

\* if score > 0: mejores.append((str(file_path), score))
qualifies(s) == s > 0

\* the loop "for file_path in self.audio_dir.glob('*.wav')" from the k-th file
\* on; a path is modelled by the file's position in glob order
RECURSIVE scan_dir(_, _, _, _, _)
scan_dir(dir, k, hashes_target, mejores, ya) ==
    IF k > Len(dir) THEN [ raised |-> FALSE, mejores |-> mejores, ya_graficado |-> ya ]
    ELSE LET c == extraer_hashes_audio(dir[k], ya)
         IN  IF c.raised
             THEN [ raised |-> TRUE, mejores |-> mejores, ya_graficado |-> c.ya_graficado ]
             ELSE LET s == comparar_hashes(hashes_target, c.hashes)
                  IN  scan_dir(dir, k + 1, hashes_target,
                               IF qualifies(s) THEN Append(mejores, << k, s >>)
                               ELSE mejores,
                               c.ya_graficado)

\* variant: an unstable descending sort, equal scores end up reversed
RECURSIVE InsertByScore_unstable(_, _)
InsertByScore_unstable(s, x) ==
    IF s = << >> THEN << x >>
    ELSE IF s[Len(s)][2] > x[2]
         THEN Append(s, x)
         ELSE Append(InsertByScore_unstable(SubSeq(s, 1, Len(s) - 1), x), s[Len(s)])

\* where x goes in a list already sorted by score descending: after every
\* element whose score is >= x's (sorted(..., reverse=True) keeps the
\* original order of equal scores)
RECURSIVE InsertByScore(_, _)
InsertByScore(s, x) ==
    IF s = << >> THEN << x >>
    ELSE IF s[Len(s)][2] >= x[2]
         THEN Append(s, x)
         ELSE Append(InsertByScore(SubSeq(s, 1, Len(s) - 1), x), s[Len(s)])

\* sorted(mejores, key=lambda x: x[1], reverse=True)
RECURSIVE sorted_by_score(_)
sorted_by_score(s) ==
    IF Len(s) <= 1 THEN s
    ELSE InsertByScore(sorted_by_score(SubSeq(s, 1, Len(s) - 1)), s[Len(s)])

\* variant: return mejores, the whole ranking
best_all(mejores) == mejores

\* variant: return [mejores[-1]], the last of the ranking
best_last(mejores) == IF mejores # << >> THEN << mejores[Len(mejores)] >> ELSE << >>

\* if mejores: return [mejores[0]] / return []
best_only(mejores) == IF mejores # << >> THEN << mejores[1] >> ELSE << >>

\* self.find_similar_audio(target) on an analyzer whose flag is ya
find_similar_audio(target, dir, ya) ==
    LET t == extraer_hashes_audio(target, ya)
    IN  IF t.raised
        THEN [ raised |-> TRUE, result |-> << >>, ya_graficado |-> t.ya_graficado ]
        ELSE LET sc == scan_dir(dir, 1, t.hashes, << >>, t.ya_graficado)
             IN  IF sc.raised
                 THEN [ raised |-> TRUE, result |-> << >>,
                        ya_graficado |-> sc.ya_graficado ]
                 ELSE [ raised |-> FALSE,
                        result |-> best_only(sorted_by_score(sc.mejores)),
                        ya_graficado |-> sc.ya_graficado ]

\* self.find_match_in_all_audios(fragment, block_duration, min_matches)
find_match_in_all_audios(fragment, dir, bd, mm, ya) ==
    find_similar_audio(fragment, dir, ya)

\* filtered_files = [(f, s) for f, s in similar_files if s > 0]
RECURSIVE filtered_files(_)
filtered_files(sf) ==
    IF sf = << >> THEN << >>
    ELSE (IF sf[1][2] > 0 THEN << sf[1] >> ELSE << >>) \o filtered_files(Tail(sf))

-----------------------------------------------------------------------------
(* Inputs *)

\* block_duration=10 and min_matches=2, what analysis_logic passes
UI_BLOCK_DURATION == 10
UI_MIN_MATCHES == 2

\* peak lists a caller may hand to _generar_hashes
PeakLists == SeqsUpTo(Peaks, MaxPeaks)

\* fingerprint lists a caller may hand to _comparar_hashes
Tokens == { hash_truncated(1, 1, 5), hash_truncated(1, 2, 5) }
OffsetTimes == {0, 5, 10}
Fingerprints == SeqsUpTo(Tokens \X OffsetTimes, MaxHashes)

\* sample buffers handed to _huellas_digitales: lengths around one, two and
\* three windows, with the silent frames and peak cells their frames can hold
Longitudes == {0, 1023, 1024, 1536, 1800, 2048}
Ventanas == { EFFECT_WINDOW_SIZE }
Overlaps == { RELATIONSHIP_OVERLAP_BY_DEFECT, 75 }
HuellasCells == { << 1, 0, -60 >>, << 2, 0, 10 >>, << 1, 1, 10 >> }
FramesOf(n) ==
    0..(n_frames(n, EFFECT_WINDOW_SIZE,
                 hop_size(EFFECT_WINDOW_SIZE, RELATIONSHIP_OVERLAP_BY_DEFECT)) - 1)
Buffers ==
    { [ n |-> n, ceros |-> z, picos |-> c ] :
        << n, z, c >> \in
            { x \in Longitudes \X (SUBSET (0..2)) \X (SUBSET HuellasCells) :
                /\ x[2] \subseteq FramesOf(x[1])
                /\ \A cell \in x[3] : cell[2] \in FramesOf(x[1]) } }

\* the *.wav files of the library: 10-second recordings (the recorder's
\* default DURATION) with any of the peak cells, one 5-second recording, and
\* a recording that holds no samples
LibCells == { << 1, 0, 10 >>, << 2, 0, 10 >>, << 1, 5, 10 >> }
EmptyFile == [ n |-> 0, ceros |-> {}, picos |-> {} ]
ShortFile == [ n |-> 5 * FS_DEFAULT, ceros |-> {}, picos |-> LibCells ]
LibFiles ==
    { [ n |-> 10 * FS_DEFAULT, ceros |-> {}, picos |-> c ] : c \in SUBSET LibCells }
        \cup { ShortFile, EmptyFile }
TargetFiles == { f \in LibFiles : f.n \in { 0, 10 * FS_DEFAULT } }

\* peak lists without a repeated (frequency, time) peak, as np.where yields
\* them: every ordering of every subset of TrackPeaks
TrackPeaks == { << 1, 0 >>, << 1, 5 >>, << 2, 5 >>, << 1, 10 >> }
TrackPeakLists ==
    { p \in SeqsUpTo(TrackPeaks, Cardinality(TrackPeaks)) :
        \A a, b \in 1..Len(p) : a # b => p[a] # p[b] }
TrackFanValues == {2, DEFAULT_FAN_VALUE}

\* the analysis threads
Hilos == 1..MaxThreads

\* recording lengths in seconds, from the low end of the UI's slider (2..60)
Durations == {2, 3}

\* arguments outside the documented domain: valor_fan < 1, a negative window
\* size, a negative overlap ratio (in percent)
InvalidFanValues == {-1, 0}
InvalidVentanas == { -EFFECT_WINDOW_SIZE, -1 }
InvalidOverlaps == {-50}

-----------------------------------------------------------------------------
(* Initial values of the variables a specification does not exercise *)

HashIdle ==
    /\ picos = << >>
    /\ valor_fan = DEFAULT_FAN_VALUE
    /\ hashes = << >>
    /\ yields = << >>

MatchIdle ==
    /\ hashes1 = << >>
    /\ hashes2 = << >>
    /\ score = 0

FindIdle ==
    /\ audio_dir = << >>
    /\ target_file = EmptyFile
    /\ block_duration = UI_BLOCK_DURATION
    /\ min_matches = UI_MIN_MATCHES
    /\ similar_files = << >>
    /\ listbox = << >>

NoEspectro == [ hop_size |-> 0, n_frames |-> 0, built |-> {}, shown |-> FALSE ]

HuellasIdle ==
    /\ muestras = EmptyFile
    /\ tamano_ventana = EFFECT_WINDOW_SIZE
    /\ relacion_superposicion = RELATIONSHIP_OVERLAP_BY_DEFECT
    /\ amp_min = AMP_MIN_DEFAULT
    /\ espectro = NoEspectro
    /\ peaks_out = << >>

\* recorder.py as imported, and no recording requested in the UI
RecIdle ==
    /\ is_recording_cancelled = FALSE
    /\ last_audio_file = 0
    /\ wav_files = << >>
    /\ rec_pc = "idle"
    /\ poll_i = 0
    /\ duration = 0
    /\ cancel_btn = "absent"
    /\ status_log = << >>
    /\ cancel_at = "none"
    /\ recordings = 0

\* no widget used yet
UiIdle == widget_touch = {}

\* no figure shown, no analysis thread running
PlotIdle ==
    /\ figures = 0
    /\ hilo_pc = [ t \in Hilos |-> "idle" ]
    /\ hilo_calls = [ t \in Hilos |-> 0 ]

AnalyzerIdle ==
    /\ pc = "idle"
    /\ HashIdle /\ MatchIdle /\ FindIdle /\ HuellasIdle
    /\ ya_graficado = FALSE

-----------------------------------------------------------------------------
(* SpecHashes: one call list(self._generar_hashes(picos, valor_fan)) *)

InitHashes ==
    /\ pc = "idle"
    /\ picos \in PeakLists
    /\ valor_fan \in FanValues
    /\ hashes = << >>
    /\ yields = << >>
    /\ MatchIdle /\ FindIdle /\ HuellasIdle
    /\ ya_graficado = FALSE
    /\ RecIdle
    /\ UiIdle /\ PlotIdle

GenerarHashes ==
    /\ pc = "idle"
    /\ picos' = picos_sorted(picos)
    /\ yields' = generar_yields(picos, valor_fan)
    /\ hashes' = generar_hashes(picos, valor_fan)
    /\ pc' = "done"
    /\ UNCHANGED << valor_fan, matchVars, findVars, huellasVars, ya_graficado,
                    recVars, widget_touch, plotVars >>

NextHashes == GenerarHashes

SpecHashes == InitHashes /\ [][NextHashes]_vars

-----------------------------------------------------------------------------
(* SpecMatcher: one call self._comparar_hashes(hashes1, hashes2) *)

InitMatcher ==
    /\ pc = "idle"
    /\ hashes1 \in Fingerprints
    /\ hashes2 \in Fingerprints
    /\ score = 0
    /\ HashIdle /\ FindIdle /\ HuellasIdle
    /\ ya_graficado = FALSE
    /\ RecIdle
    /\ UiIdle /\ PlotIdle

CompararHashes ==
    /\ pc = "idle"
    /\ score' = comparar_hashes(hashes1, hashes2)
    /\ pc' = "done"
    /\ UNCHANGED << hashes1, hashes2, hashVars, findVars, huellasVars, ya_graficado,
                    recVars, widget_touch, plotVars >>

NextMatcher == CompararHashes

SpecMatcher == InitMatcher /\ [][NextMatcher]_vars

-----------------------------------------------------------------------------
(* SpecSelfMatch: two fingerprints produced by _generar_hashes from peak   *)
(* lists without repeated peaks, then compared by _comparar_hashes         *)

InitSelfMatch ==
    /\ pc = "idle"
    /\ picos \in TrackPeakLists
    /\ valor_fan \in TrackFanValues
    /\ hashes = << >>
    /\ yields = << >>
    /\ MatchIdle /\ FindIdle /\ HuellasIdle
    /\ ya_graficado = FALSE
    /\ RecIdle
    /\ UiIdle /\ PlotIdle

\* X = list(self._generar_hashes(picos, valor_fan)); the caller then holds
\* the peak list and fan value of the second track
FingerprintX ==
    /\ pc = "idle"
    /\ hashes1' = generar_hashes(picos, valor_fan)
    /\ picos' \in TrackPeakLists
    /\ valor_fan' \in TrackFanValues
    /\ pc' = "x_hashed"
    /\ UNCHANGED << hashes, yields, hashes2, score, findVars, huellasVars,
                    ya_graficado,
                    recVars, widget_touch, plotVars >>

\* Y = list(self._generar_hashes(picos, valor_fan))
FingerprintY ==
    /\ pc = "x_hashed"
    /\ hashes2' = generar_hashes(picos, valor_fan)
    /\ picos' = picos_sorted(picos)
    /\ pc' = "y_hashed"
    /\ UNCHANGED << valor_fan, hashes, yields, hashes1, score, findVars,
                    huellasVars, ya_graficado,
                    recVars, widget_touch, plotVars >>

\* score = self._comparar_hashes(X, Y)
CompararXY ==
    /\ pc = "y_hashed"
    /\ score' = comparar_hashes(hashes1, hashes2)
    /\ pc' = "done"
    /\ UNCHANGED << hashes1, hashes2, hashVars, findVars, huellasVars,
                    ya_graficado,
                    recVars, widget_touch, plotVars >>

NextSelfMatch == FingerprintX \/ FingerprintY \/ CompararXY

SpecSelfMatch == InitSelfMatch /\ [][NextSelfMatch]_vars

-----------------------------------------------------------------------------
(* SpecHuellas: one call self._huellas_digitales(muestras, ...) *)

InitHuellas ==
    /\ pc = "idle"
    /\ muestras \in Buffers
    /\ tamano_ventana \in Ventanas
    /\ relacion_superposicion \in Overlaps
    /\ amp_min = AMP_MIN_DEFAULT
    /\ espectro = NoEspectro
    /\ peaks_out = << >>
    /\ HashIdle /\ MatchIdle /\ FindIdle
    /\ ya_graficado \in BOOLEAN
    /\ RecIdle
    /\ UiIdle /\ PlotIdle

HuellasDigitales ==
    /\ pc = "idle"
    /\ LET h == huellas_digitales(muestras, tamano_ventana,
                                  relacion_superposicion, amp_min, ya_graficado)
       IN  /\ espectro' = [ hop_size |-> h.hop_size, n_frames |-> h.n_frames,
                            built |-> frames_built(muestras.n, tamano_ventana,
                                                   h.hop_size, h.n_frames),
                            shown |-> h.shown ]
           /\ peaks_out' = h.peaks
           /\ ya_graficado' = h.ya_graficado
           /\ figures' = figures + (IF h.shown THEN 1 ELSE 0)
           /\ pc' = IF h.raised THEN "raised" ELSE "done"
    /\ UNCHANGED << muestras, tamano_ventana, relacion_superposicion, amp_min,
                    hashVars, matchVars, findVars,
                    recVars, widget_touch, hilo_pc, hilo_calls >>

NextHuellas == HuellasDigitales

SpecHuellas == InitHuellas /\ [][NextHuellas]_vars

-----------------------------------------------------------------------------
(* SpecInvalid: one call of _generar_hashes or of _huellas_digitales with  *)
(* an argument outside the documented domain                               *)

InitInvalid ==
    /\ pc = "idle"
    /\ hashes = << >>
    /\ yields = << >>
    /\ espectro = NoEspectro
    /\ peaks_out = << >>
    /\ amp_min = AMP_MIN_DEFAULT
    /\ MatchIdle /\ FindIdle
    /\ ya_graficado = FALSE
    /\ RecIdle
    /\ UiIdle /\ PlotIdle
    /\ \/ /\ picos \in PeakLists
          /\ valor_fan \in InvalidFanValues
          /\ muestras = EmptyFile
          /\ tamano_ventana = EFFECT_WINDOW_SIZE
          /\ relacion_superposicion = RELATIONSHIP_OVERLAP_BY_DEFECT
       \/ /\ picos = << >>
          /\ valor_fan = DEFAULT_FAN_VALUE
          /\ muestras \in Buffers
          /\ \/ /\ tamano_ventana \in InvalidVentanas
                /\ relacion_superposicion \in Overlaps \cup InvalidOverlaps
             \/ /\ tamano_ventana \in Ventanas
                /\ relacion_superposicion \in InvalidOverlaps

\* list(self._generar_hashes(picos, valor_fan)) with valor_fan < 1
GenerarHashesInvalid ==
    /\ valor_fan < 1
    /\ GenerarHashes

\* self._huellas_digitales(muestras, ...) with a negative window size or a
\* negative overlap ratio
HuellasDigitalesInvalid ==
    /\ (tamano_ventana < 0 \/ relacion_superposicion < 0)
    /\ HuellasDigitales

NextInvalid == GenerarHashesInvalid \/ HuellasDigitalesInvalid

SpecInvalid == InitInvalid /\ [][NextInvalid]_vars

-----------------------------------------------------------------------------
(* SpecRecorder: start_recording in the UI, the cancel button, and the     *)
(* thread that runs record_audio. Recordings are started one after the     *)
(* other; the steps of the thread interleave with the UI's callbacks at    *)
(* the points where record_audio reads or writes the shared flag.          *)

\* update_status(msg), called in thread hilo: status_label.configure(text=msg)
\* and root.update()
update_status(hilo) == { << "status_label", hilo >> }

\* on_recording_update: "completada" in msg or "cancelada" in msg or
\* "Error" in msg
is_final_message(msg) == msg \in { "completada", "cancelada", "error" }

\* the widgets on_recording_update uses, in the thread hilo that calls it,
\* for the messages of log: update_status(msg), and for a final message
\* cancel_btn.winfo_exists() and root.after(10, cancel_btn.destroy)
on_recording_update(log, hilo) ==
    IF log = << >> THEN {}
    ELSE update_status(hilo) \cup
         (IF \E k \in 1..Len(log) : is_final_message(log[k])
          THEN { << "cancel_btn", hilo >> } ELSE {})

InitRecorder ==
    /\ AnalyzerIdle
    /\ RecIdle
    /\ UiIdle /\ PlotIdle

\* start_recording (main thread): the cancel button is packed and
\* record_audio_thread is scheduled with root.after(150, ...)
StartRecording ==
    /\ rec_pc \in { "idle", "returned" }
    /\ recordings < MaxRecordings
    /\ recordings' = recordings + 1
    /\ cancel_btn' = "shown"
    /\ rec_pc' = "scheduled"
    /\ status_log' = << >>
    /\ cancel_at' = "none"
    /\ widget_touch' = widget_touch \cup { << "cancel_btn", "main" >> }
    /\ UNCHANGED << is_recording_cancelled, last_audio_file, wav_files, poll_i,
                    duration, analyzerVars >>

\* on_cancel_pressed (main thread): cancel_recording() sets the flag, and the
\* button is scheduled for destruction
CancelPressed ==
    /\ cancel_btn = "shown"
    /\ is_recording_cancelled' = TRUE
    /\ cancel_btn' = "pressed"
    /\ cancel_at' = rec_pc
    /\ widget_touch' = widget_touch \cup { << "cancel_btn", "main" >> }
    /\ UNCHANGED << last_audio_file, wav_files, rec_pc, poll_i, duration,
                    status_log, recordings, analyzerVars >>

\* the timer of start_recording fires: record_audio_thread starts the thread
\* with duration_var.get()
RecordAudioThread ==
    /\ rec_pc = "scheduled"
    /\ duration' \in Durations
    /\ rec_pc' = "entry"
    /\ UNCHANGED << widget_touch, is_recording_cancelled, last_audio_file, wav_files, poll_i,
                    cancel_btn, status_log, cancel_at, recordings, analyzerVars >>

\* record_audio: is_recording_cancelled = False
ResetFlag ==
    /\ rec_pc = "entry"
    /\ is_recording_cancelled' = FALSE
    /\ rec_pc' = "try"
    /\ UNCHANGED << widget_touch, last_audio_file, wav_files, poll_i, duration, cancel_btn,
                    status_log, cancel_at, recordings, analyzerVars >>

\* record_audio: update_status("Grabando ...") and sd.rec(...); an exception
\* of sd.rec is reported by the except branch
BeginRecording ==
    /\ rec_pc = "try"
    /\ \/ /\ status_log' = Append(status_log, "grabando")
          /\ poll_i' = 0
          /\ rec_pc' = "poll"
       \/ /\ status_log' = status_log \o << "grabando", "error" >>
          /\ poll_i' = poll_i
          /\ rec_pc' = "returned"
    /\ widget_touch' = widget_touch \cup on_recording_update(status_log', "recording")
    /\ UNCHANGED << is_recording_cancelled, last_audio_file, wav_files, duration,
                    cancel_btn, cancel_at, recordings, analyzerVars >>

\* record_audio: one iteration of "for i in range(duration * 10)": the flag
\* is read; if set, sd.stop(), the cancelled status and return; if not,
\* sd.sleep(100) and the next i, or the end of the loop. update_status runs
\* in the recording thread; if it raises, the except branch reports an error
PollCancelled ==
    /\ rec_pc = "poll"
    /\ IF is_recording_cancelled
       THEN /\ \/ status_log' = Append(status_log, "cancelada")
               \/ status_log' = status_log \o << "cancelada", "error" >>
            /\ rec_pc' = "returned"
            /\ poll_i' = poll_i
       ELSE /\ status_log' = status_log
            /\ poll_i' = poll_i + 1
            /\ rec_pc' = IF poll_i + 1 < duration * CHECKS_PER_SECOND
                         THEN "poll" ELSE "save"
    /\ widget_touch' = widget_touch \cup on_recording_update(status_log', "recording")
    /\ UNCHANGED << is_recording_cancelled, last_audio_file, wav_files, duration,
                    cancel_btn, cancel_at, recordings, analyzerVars >>

\* record_audio: generate_filename(), wav.write(...), last_audio_file and
\* the completed status; an exception of wav.write is reported instead, and
\* so is an exception of update_status on the completed message, raised
\* after the file was written and last_audio_file assigned
SaveRecording ==
    /\ rec_pc = "save"
    /\ \/ /\ wav_files' = Append(wav_files, recordings)
          /\ last_audio_file' = recordings
          /\ status_log' = Append(status_log, "completada")
       \/ /\ wav_files' = Append(wav_files, recordings)
          /\ last_audio_file' = recordings
          /\ status_log' = status_log \o << "completada", "error" >>
       \/ /\ wav_files' = wav_files
          /\ last_audio_file' = last_audio_file
          /\ status_log' = Append(status_log, "error")
    /\ rec_pc' = "returned"
    /\ widget_touch' = widget_touch \cup on_recording_update(status_log', "recording")
    /\ UNCHANGED << is_recording_cancelled, poll_i, duration, cancel_btn,
                    cancel_at, recordings, analyzerVars >>

\* on_recording_update saw a final message: root.after(10, cancel_btn.destroy)
DestroyCancelButton ==
    /\ rec_pc = "returned"
    /\ cancel_btn = "shown"
    /\ cancel_btn' = "destroyed"
    /\ widget_touch' = widget_touch \cup { << "cancel_btn", "main" >> }
    /\ UNCHANGED << is_recording_cancelled, last_audio_file, wav_files, rec_pc,
                    poll_i, duration, status_log, cancel_at, recordings,
                    analyzerVars >>

NextRecorder ==
    \/ StartRecording
    \/ CancelPressed
    \/ RecordAudioThread
    \/ ResetFlag
    \/ BeginRecording
    \/ PollCancelled
    \/ SaveRecording
    \/ DestroyCancelButton

SpecRecorder == InitRecorder /\ [][NextRecorder]_vars

-----------------------------------------------------------------------------
(* SpecFigure: the analysis threads started by presses of the analyze      *)
(* button; each calls _huellas_digitales on the analyzer the UI created,   *)
(* once per file it fingerprints. Only the steps that read or write        *)
(* _ya_graficado are kept apart.                                           *)

InitFigure ==
    /\ AnalyzerIdle
    /\ RecIdle
    /\ UiIdle /\ PlotIdle

\* thread t calls self._huellas_digitales(...): the spectrogram is built and
\* its statistics printed; the call either raises there or reaches the
\* test of _ya_graficado with a non-empty arr2D
HiloHuellas(t) ==
    /\ hilo_pc[t] = "idle"
    /\ hilo_calls[t] < MaxCalls
    /\ hilo_calls' = [ hilo_calls EXCEPT ![t] = @ + 1 ]
    /\ \/ hilo_pc' = [ hilo_pc EXCEPT ![t] = "check" ]
       \/ hilo_pc' = hilo_pc
    /\ UNCHANGED << pc, hashVars, matchVars, findVars, huellasVars, ya_graficado,
                    figures, recVars, widget_touch >>

\* if not self._ya_graficado and arr2D.size > 0: otherwise the call goes on
\* to the peak detection and returns
HiloCheck(t) ==
    /\ hilo_pc[t] = "check"
    /\ hilo_pc' = [ hilo_pc EXCEPT ![t] =
                       IF figure_shown(ya_graficado, TRUE) THEN "show" ELSE "idle" ]
    /\ UNCHANGED << pc, hashVars, matchVars, findVars, huellasVars, ya_graficado,
                    figures, hilo_calls, recVars, widget_touch >>

\* plt.figure(...), plt.imshow(...), plt.show()
HiloShow(t) ==
    /\ hilo_pc[t] = "show"
    /\ figures' = figures + 1
    /\ hilo_pc' = [ hilo_pc EXCEPT ![t] = "shown" ]
    /\ UNCHANGED << pc, hashVars, matchVars, findVars, huellasVars, ya_graficado,
                    hilo_calls, recVars, widget_touch >>

\* self._ya_graficado = True, then the peak detection and the return
HiloSetFlag(t) ==
    /\ hilo_pc[t] = "shown"
    /\ ya_graficado' = TRUE
    /\ hilo_pc' = [ hilo_pc EXCEPT ![t] = "idle" ]
    /\ UNCHANGED << pc, hashVars, matchVars, findVars, huellasVars, figures,
                    hilo_calls, recVars, widget_touch >>

NextFigure ==
    \E t \in Hilos :
        HiloHuellas(t) \/ HiloCheck(t) \/ HiloShow(t) \/ HiloSetFlag(t)

SpecFigure == InitFigure /\ [][NextFigure]_vars

-----------------------------------------------------------------------------
(* Spec: the UI's analysis of target_file against the audio directory *)

Init ==
    /\ pc = "idle"
    /\ target_file \in TargetFiles
    /\ audio_dir \in SeqsUpTo(LibFiles, MaxFiles)
    /\ block_duration = UI_BLOCK_DURATION
    /\ min_matches = UI_MIN_MATCHES
    /\ similar_files = << >>
    /\ listbox = << >>
    /\ HashIdle /\ MatchIdle /\ HuellasIdle
    /\ ya_graficado = FALSE
    /\ RecIdle
    /\ UiIdle /\ PlotIdle

\* analyze_current_audio, in the thread analyze_audio_thread starts for it:
\* the file exists, the status is updated, spectrum_frame and
\* similarity_listbox are cleared, and the analysis thread is started
AnalyzeCurrentAudio ==
    /\ pc = "idle"
    /\ listbox' = << >>
    /\ widget_touch' = widget_touch \cup update_status("analyze")
                           \cup { << "spectrum_frame", "analyze" >>,
                                  << "similarity_listbox", "analyze" >> }
    /\ pc' = "analysing"
    /\ UNCHANGED << audio_dir, target_file, block_duration, min_matches,
                    similar_files, hashVars, matchVars, huellasVars, ya_graficado,
                    recVars, plotVars >>

\* analysis_logic, in the analysis thread: the call of
\* find_match_in_all_audios; an exception is caught and reported
AnalysisLogic ==
    /\ pc = "analysing"
    /\ LET r == find_match_in_all_audios(target_file, audio_dir, block_duration,
                                         min_matches, ya_graficado)
       IN  /\ similar_files' = r.result
           /\ ya_graficado' = r.ya_graficado
           /\ figures' = figures + (IF r.ya_graficado /\ ~ya_graficado THEN 1 ELSE 0)
           /\ pc' = IF r.raised THEN "raised" ELSE "done"
    /\ UNCHANGED << audio_dir, target_file, block_duration, min_matches, listbox,
                    hashVars, matchVars, huellasVars,
                    recVars, widget_touch, hilo_pc, hilo_calls >>

\* update_ui -> update_analysis_results(similar_files), on the UI thread
UpdateAnalysisResults ==
    /\ pc = "done"
    /\ listbox' = filtered_files(similar_files)
    /\ widget_touch' = widget_touch \cup update_status("main")
                           \cup { << "similarity_listbox", "main" >> }
    /\ pc' = "shown"
    /\ UNCHANGED << audio_dir, target_file, block_duration, min_matches,
                    similar_files, hashVars, matchVars, huellasVars, ya_graficado,
                    recVars, plotVars >>

\* the except branch: messagebox.showerror and the error status
ShowError ==
    /\ pc = "raised"
    /\ widget_touch' = widget_touch \cup update_status("main")
    /\ pc' = "error_shown"
    /\ UNCHANGED << findVars, hashVars, matchVars, huellasVars, ya_graficado,
                    recVars, plotVars >>

Next == AnalyzeCurrentAudio \/ AnalysisLogic \/ UpdateAnalysisResults \/ ShowError

Spec == Init /\ [][Next]_vars

-----------------------------------------------------------------------------
(* Properties of _generar_hashes, checked under SpecHashes.                *)
(* At "done" picos is the list as the call left it: sorted by time.        *)

\* time and frequency of the k-th (1-based) peak of a list
TimeOf(p, k) == p[k][IDX_TIME_J + 1]
FreqOf(p, k) == p[k][IDX_FREQ_I + 1]

\* the yields made for anchor index a and target index b (1-based, a < b)
YieldsOfPair(a, b) ==
    { k \in 1..Len(yields) : yields[k].i = a - 1 /\ yields[k].j = b - a }

\* C4: an anchor/target pair inside the fan-out window emits a hash if and
\* only if 0 <= target.time - anchor.time <= 200, both bounds inclusive
C4_DeltaWindowInclusive ==
    pc = "done" =>
        \A a \in 1..Len(picos) : \A b \in 1..Len(picos) :
            (a < b /\ b - a <= valor_fan - 1) =>
                ( YieldsOfPair(a, b) # {}
                  <=> ( 0 <= TimeOf(picos, b) - TimeOf(picos, a)
                        /\ TimeOf(picos, b) - TimeOf(picos, a) <= 200 ) )

\* the example of the claim: peaks at times [0, 5, 250]; the pair (0, 5) is
\* emitted and the pair (0, 250) is not
C4_Witness ==
    /\ pc = "done"
    /\ Len(picos) = 3
    /\ valor_fan >= 3
    /\ << TimeOf(picos, 1), TimeOf(picos, 2), TimeOf(picos, 3) >> = << 0, 5, 250 >>
    /\ YieldsOfPair(1, 2) # {}
    /\ YieldsOfPair(1, 3) = {}

TripleOf(k) ==
    LET a == yields[k].i + 1
        b == yields[k].i + yields[k].j + 1
    IN  << FreqOf(picos, a), FreqOf(picos, b), TimeOf(picos, b) - TimeOf(picos, a) >>

\* C6: every emitted pair is (token, t) with t the anchor's time-frame and
\* token a 20-character value determined by the triple (anchor frequency,
\* target frequency, delta): equal triples give equal tokens
C6_TokenOfTripleAtAnchorTime ==
    pc = "done" =>
        /\ Len(hashes) = Len(yields)
        /\ \A k \in 1..Len(hashes) :
              /\ hashes[k][2] = TimeOf(picos, yields[k].i + 1)
              /\ Len(hashes[k][1]) = 20
        /\ \A k1 \in 1..Len(hashes) : \A k2 \in 1..Len(hashes) :
              TripleOf(k1) = TripleOf(k2) => hashes[k1][1] = hashes[k2][1]

\* two pairs with the same triple anchored at different times, and a pair
\* whose target lies later than its anchor
C6_Witness ==
    /\ pc = "done"
    /\ \E k1 \in 1..Len(hashes) : \E k2 \in 1..Len(hashes) :
          /\ TripleOf(k1) = TripleOf(k2)
          /\ hashes[k1][2] # hashes[k2][2]
          /\ hashes[k1][1] = hashes[k2][1]
          /\ TripleOf(k1)[3] > 0

\* the orderings of the elements of a list
Perms(p) ==
    { q \in [1..Len(p) -> Range(p)] : BagOfSeq(q) = BagOfSeq(p) }

\* q and p list the peaks of every time-frame in the same relative order
SameTieOrder(q, p) ==
    \A t \in { x[IDX_TIME_J + 1] : x \in Range(p) } :
        SelectSeq(q, LAMBDA x : x[IDX_TIME_J + 1] = t)
            = SelectSeq(p, LAMBDA x : x[IDX_TIME_J + 1] = t)

\* C7 as stated: for any two peak lists that are permutations of each other
\* the multiset of emitted (hash, reference_time) pairs is identical
C7_PermutationInvariant ==
    pc = "done" =>
        \A q \in Perms(picos) :
            BagOfSeq(generar_hashes(q, valor_fan)) = BagOfSeq(hashes)

\* C7 as amended: two peak lists that are permutations of each other and
\* list the peaks of every time-frame in the same relative order emit the
\* same multiset of (hash, reference_time) pairs
C7_TiePreservingPermutation ==
    pc = "done" =>
        \A q \in Perms(picos) :
            SameTieOrder(q, picos) =>
                BagOfSeq(generar_hashes(q, valor_fan)) = BagOfSeq(hashes)

\* a list with two peaks in one time-frame and a third in another, hashed,
\* which has another ordering that keeps the order within the time-frame
C7_Witness ==
    /\ pc = "done"
    /\ Len(hashes) >= 2
    /\ \E a \in 1..Len(picos) : \E b \in 1..Len(picos) :
          /\ a # b
          /\ TimeOf(picos, a) = TimeOf(picos, b)
          /\ FreqOf(picos, a) # FreqOf(picos, b)
    /\ \E q \in Perms(picos) : q # picos /\ SameTieOrder(q, picos)

-----------------------------------------------------------------------------
(* Properties of _comparar_hashes, checked under SpecMatcher *)

\* the pairs (index in hashes1, index in hashes2) whose hashes are equal
Colliding ==
    { x \in (1..Len(hashes1)) \X (1..Len(hashes2)) :
        hashes1[x[1]][1] = hashes2[x[2]][1] }

\* the colliding pairs whose offset t2 - t1 is d
Cluster(d) ==
    { x \in Colliding : hashes2[x[2]][2] - hashes1[x[1]][2] = d }

\* every offset some pair of entries can have (a cluster at any other integer
\* is empty), and 0
AllOffsets ==
    { hashes2[j][2] - hashes1[i][2] : << i, j >> \in (1..Len(hashes1)) \X (1..Len(hashes2)) }
        \cup {0}

\* C1: _comparar_hashes(A, B) is the maximum, over all integer offsets d, of
\* the number of pairs with equal hashes and t2 - t1 = d; it is 0 exactly
\* when no pair has equal hashes
C1_ScoreIsLargestCluster ==
    pc = "done" =>
        /\ \A d \in AllOffsets : Cardinality(Cluster(d)) <= score
        /\ \E d \in AllOffsets : Cardinality(Cluster(d)) = score
        /\ (score = 0 <=> Colliding = {})

\* collisions at two different offsets, the larger cluster being the score
C1_Witness ==
    /\ pc = "done"
    /\ score = 2
    /\ Cardinality(Colliding) > score
    /\ \E d \in AllOffsets : Cardinality(Cluster(d)) = 1

-----------------------------------------------------------------------------
(* Properties of find_similar_audio / find_match_in_all_audios and of the  *)
(* result list, checked under Spec                                         *)

Returned == pc \in { "done", "shown" }

\* the fingerprint _extraer_hashes_audio gives for a file
FingerprintOf(file) == extraer_hashes_audio(file, FALSE).hashes

\* the score of the k-th candidate (in glob order) against the query
ScoreOf(k) ==
    comparar_hashes(FingerprintOf(target_file), FingerprintOf(audio_dir[k]))

Candidates == 1..Len(audio_dir)

\* C2: find_similar_audio returns the candidate whose score against the
\* query is the maximum over all candidates, returns an empty result if and
\* only if no candidate scored above zero, and every returned score is > 0
C2_BestCandidateOrEmpty ==
    Returned =>
        /\ Len(similar_files) <= 1
        /\ (similar_files = << >> <=> \A k \in Candidates : ~(ScoreOf(k) > 0))
        /\ \A x \in 1..Len(similar_files) :
              /\ similar_files[x][1] \in Candidates
              /\ similar_files[x][2] = ScoreOf(similar_files[x][1])
              /\ similar_files[x][2] > 0
              /\ \A k \in Candidates : ScoreOf(k) <= similar_files[x][2]

\* two candidates with different positive scores, the better one enumerated
\* second, is the one returned
C2_Witness ==
    /\ Returned
    /\ Len(audio_dir) = 2
    /\ ScoreOf(1) > 0
    /\ ScoreOf(1) < ScoreOf(2)
    /\ similar_files = << << 2, ScoreOf(2) >> >>

\* C3: when several candidates tie for the highest positive score, the one
\* enumerated first among them is returned
C3_FirstSeenOnTies ==
    Returned =>
        \A k \in Candidates :
            ( /\ ScoreOf(k) > 0
              /\ \A k2 \in Candidates : ScoreOf(k2) <= ScoreOf(k)
              /\ \A k2 \in Candidates : k2 < k => ScoreOf(k2) < ScoreOf(k) )
            => similar_files = << << k, ScoreOf(k) >> >>

\* two candidates tie for the highest positive score; the first is returned
C3_Witness ==
    /\ Returned
    /\ Len(audio_dir) = 2
    /\ ScoreOf(1) > 0
    /\ ScoreOf(1) = ScoreOf(2)
    /\ audio_dir[1] # audio_dir[2]
    /\ similar_files = << << 1, ScoreOf(1) >> >>

\* the entries of a result are in descending order of score
SortedDescending(sf) ==
    \A x \in 1..Len(sf) : \A y \in 1..Len(sf) : x < y => sf[x][2] >= sf[y][2]

-----------------------------------------------------------------------------
(* The block scan of the specification (section 4.5), which                *)
(* find_match_in_all_audios stands in for.  Every recording of the model   *)
(* is shorter than one and a half blocks of UI_BLOCK_DURATION seconds, so  *)
(* it has no block, or one block that is the whole recording.              *)

\* block_duration_seconds x sample_rate samples per block
block_samples(bd) == bd * FS_DEFAULT

\* the number of blocks of a recording of n samples, stepping by half a
\* block; a recording shorter than one block is skipped
n_blocks(n, bd) ==
    IF n < block_samples(bd) THEN 0
    ELSE 1 + ((n - block_samples(bd)) \div (block_samples(bd) \div 2))

\* the per-block scores of the k-th candidate against the query
block_scores(k) ==
    [ b \in 1..Min2(1, n_blocks(audio_dir[k].n, block_duration)) |-> ScoreOf(k) ]

\* a list of scores in ascending order
RECURSIVE ascending(_)
ascending(sc) ==
    IF sc = << >> THEN << >>
    ELSE LET m == CHOOSE x \in 1..Len(sc) : \A y \in 1..Len(sc) : sc[x] <= sc[y]
         IN  << sc[m] >> \o ascending([ y \in 1..(Len(sc) - 1) |->
                                          IF y < m THEN sc[y] ELSE sc[y + 1] ])

\* ten times the 90th percentile (linear interpolation) of a non-empty list
percentile_90_x10(sc) ==
    LET asc == ascending(sc)
        lo == ((9 * (Len(sc) - 1)) \div 10) + 1
        hi == Min2(lo + 1, Len(sc))
        fr == (9 * (Len(sc) - 1)) % 10
    IN  10 * asc[lo] + fr * (asc[hi] - asc[lo])

\* the number of blocks at or above the dynamic threshold
blocks_at_or_above(sc) ==
    IF sc = << >> THEN 0
    ELSE Cardinality({ b \in 1..Len(sc) : 10 * sc[b] >= percentile_90_x10(sc) })

\* C8: find_match_in_all_audios(fragment, block_duration, min_matches)
\* reports a candidate only if at least min_matches of its 50%-stepped
\* blocks score at or above the 90th percentile of its per-block scores, and
\* the score it reports is the maximum per-block score
C8_BlockScanThreshold ==
    Returned =>
        \A x \in 1..Len(similar_files) :
            LET sc == block_scores(similar_files[x][1])
            IN  /\ blocks_at_or_above(sc) >= min_matches
                /\ \E b \in 1..Len(sc) : sc[b] = similar_files[x][2]
                /\ \A b \in 1..Len(sc) : sc[b] <= similar_files[x][2]

-----------------------------------------------------------------------------
(* Properties of _huellas_digitales, checked under SpecHuellas *)

\* C10: for a sample buffer shorter than the window size _huellas_digitales
\* builds a spectrogram with zero time-frames and returns an empty peak
\* list, _generar_hashes on it returns an empty sequence, and no error is
\* raised at any stage
C10_ShortBufferNoError ==
    (pc # "idle" /\ muestras.n < tamano_ventana) =>
        /\ pc = "done"
        /\ espectro.n_frames = 0
        /\ peaks_out = << >>
        /\ generar_hashes(peaks_out, DEFAULT_FAN_VALUE) = << >>

\* the buffer holds only zeros: every frame it spans has an all-zero
\* spectrum and the spectrogram has no peak cell
AllZeroBuffer(buf) ==
    /\ buf.ceros = FramesOf(buf.n)
    /\ buf.picos = {}

\* C11: a frame whose magnitude spectrum is entirely zero never makes the
\* pipeline raise: for an all-zero sample buffer spanning several windows
\* _huellas_digitales completes without error and returns zero peaks
C11_AllZeroBufferNoError ==
    (pc # "idle" /\ muestras.n >= 2 * tamano_ventana /\ AllZeroBuffer(muestras)) =>
        /\ pc = "done"
        /\ peaks_out = << >>

\* C13: the hop size used by the spectrogram builder equals
\* window_size * (1 - overlap_ratio) for the overlap_ratio argument passed by
\* the caller (relacion_superposicion is in percent), and the frame count
\* follows from that hop size
C13_HopFollowsOverlapArgument ==
    pc # "idle" =>
        LET hop == (tamano_ventana * (100 - relacion_superposicion)) \div 100
        IN  /\ espectro.hop_size = hop
            /\ muestras.n >= tamano_ventana =>
                   espectro.n_frames = 1 + ((muestras.n - tamano_ventana) \div hop)

\* C14: for N samples, window W and hop H the spectrogram has exactly
\* 1 + floor((N - W) / H) time-frames when N >= W and 0 otherwise, and every
\* frame i of the loop is a full window, i*H + W <= N: none is skipped for
\* being short (stated for buffers without an all-zero frame, on which the
\* loop runs to its end)
C14_FrameCountAndFullFrames ==
    (pc # "idle" /\ muestras.ceros = {}) =>
        LET N == muestras.n
            W == tamano_ventana
            H == espectro.hop_size
        IN  /\ Cardinality(espectro.built) =
                   IF N >= W THEN 1 + ((N - W) \div H) ELSE 0
            /\ \A i \in 0..(espectro.n_frames - 1) :
                   /\ i * H + W <= N
                   /\ i \in espectro.built
            /\ \A i \in espectro.built : i \in 0..(espectro.n_frames - 1)

\* a buffer whose last samples do not fill a window: 1800 = 1024 + 512 + 264
C14_Witness ==
    /\ pc = "done"
    /\ muestras.ceros = {}
    /\ (muestras.n - tamano_ventana) % espectro.hop_size # 0
    /\ Cardinality(espectro.built) = 2

\* the valid peaks of the call: the peak cells of the frames it built
ValidPeaks == { c \in muestras.picos : c[2] \in espectro.built }

\* C15: a valid peak is discarded by the amplitude filter if and only if its
\* value is below amplitude_floor; a valid peak whose value equals
\* amplitude_floor is kept
C15_AmplitudeFloorInclusive ==
    pc = "done" =>
        \A c \in ValidPeaks :
            (<< c[1], c[2] >> \notin Range(peaks_out)) <=> (c[3] < amp_min)

\* C16: a fingerprinting call is stateless: _huellas_digitales leaves every
\* field of the AudioAnalyzer (audio_dir, _ya_graficado) unchanged, and what
\* the call does (here: whether it shows the spectrogram figure) is what it
\* does on a fresh analyzer, whether or not earlier calls were made
C16_FingerprintingCallStateless ==
    [][HuellasDigitales =>
         /\ ya_graficado' = ya_graficado
         /\ audio_dir' = audio_dir
         /\ espectro'.shown =
                huellas_digitales(muestras, tamano_ventana, relacion_superposicion,
                                  amp_min, FALSE).shown]_vars

-----------------------------------------------------------------------------
(* Frame properties of _generar_hashes, checked under SpecHashes *)

\* C17: the peak sequence handed to the hasher is immutable: after
\* _generar_hashes(picos) has been consumed, the caller's picos list has the
\* same elements in the same order as before the call
C17_CallerPeakListUnchanged ==
    [][GenerarHashes => picos' = picos]_vars

-----------------------------------------------------------------------------
(* Offset invariance of _comparar_hashes, checked under SpecMatcher *)

\* fingerprint h with every reference time increased by k
Shifted(h, k) == [ i \in 1..Len(h) |-> << h[i][1], h[i][2] + k >> ]

\* the shifts that keep a reference time of OffsetTimes inside OffsetTimes
Shifts == { t2 - t1 : << t1, t2 >> \in OffsetTimes \X OffsetTimes }

\* diff_counter of the call _comparar_hashes(hashes1, hashes2)
diff_counter == Counter(coincidencias(hashes1, hashes2, 1))

\* C19: offset invariance of the matcher: if fingerprint B is fingerprint A
\* with every reference time increased by the same constant k, then the most
\* frequent offset in the histogram built by _comparar_hashes(A, B) is k (and
\* no other offset is as frequent), and the returned score equals
\* _comparar_hashes(A, A)
C19_OffsetInvariance ==
    pc = "done" =>
        \A k \in Shifts :
            hashes2 = Shifted(hashes1, k) =>
                /\ score = comparar_hashes(hashes1, hashes1)
                /\ hashes1 # << >> =>
                       /\ k \in DOMAIN diff_counter
                       /\ diff_counter[k] = score
                       /\ \A d \in DOMAIN diff_counter \ {k} :
                              diff_counter[d] < diff_counter[k]

\* two entries with one token, shifted by 5: the histogram also holds the
\* offsets 0 and 10, once each
C19_Witness ==
    /\ pc = "done"
    /\ Len(hashes1) = 2
    /\ hashes2 = Shifted(hashes1, 5)
    /\ score = 2
    /\ Cardinality(DOMAIN diff_counter) = 3

-----------------------------------------------------------------------------
(* Properties of the matcher on produced fingerprints, under SpecSelfMatch *)

\* C18: self-match: for fingerprints X and Y produced by _generar_hashes from
\* peak lists with no repeated (frequency, time) peak,
\* _comparar_hashes(X, X) >= _comparar_hashes(X, Y)
C18_SelfMatchIsBest ==
    pc = "done" => comparar_hashes(hashes1, hashes1) >= score

\* a second track that shares every token of the first at one offset and
\* has entries of its own
C18_Witness ==
    /\ pc = "done"
    /\ hashes1 # hashes2
    /\ Len(hashes2) > Len(hashes1)
    /\ score = comparar_hashes(hashes1, hashes1)
    /\ score >= 2

-----------------------------------------------------------------------------
(* Properties of calls with invalid arguments, checked under SpecInvalid *)

\* C12: invalid caller parameters are rejected at call time with an error:
\* _generar_hashes called with valor_fan < 1, and _huellas_digitales called
\* with a negative window size or overlap, raise an error rather than
\* return an empty or truncated result
C12_InvalidParametersRejected ==
    (/\ pc # "idle"
     /\ (valor_fan < 1 \/ tamano_ventana < 0 \/ relacion_superposicion < 0)) =>
        pc = "raised"

-----------------------------------------------------------------------------
(* Properties of the recorder, checked under SpecRecorder *)

\* cancel_recording() was called for the current recording between the press
\* of the record button and the end of the recording
CancelledInTime == cancel_at \notin { "none", "returned" }

\* C20: once cancel_recording() has been called for a recording the user
\* started, at any moment between the press of the record button and the end
\* of the recording (also before the recording thread has begun to run), that
\* recording ends by reporting the cancelled status and does not go on to
\* save a file (recordings that end in an error of the audio device or of
\* the file write are left aside)
C20_CancelAlwaysHonoured ==
    (rec_pc = "returned" /\ CancelledInTime /\ "error" \notin Range(status_log)) =>
        /\ status_log[Len(status_log)] = "cancelada"
        /\ recordings \notin Range(wav_files)

\* the last message record_audio passed to update_status
LastStatus == status_log[Len(status_log)]

\* C21: whenever record_audio ends with the cancelled status or with an
\* error status, no WAV file has been written by that call and the global
\* last_audio_file is unchanged by it
C21_NoFileOnCancelOrError ==
    (rec_pc = "returned" /\ LastStatus \in { "cancelada", "error" }) =>
        /\ recordings \notin Range(wav_files)
        /\ last_audio_file # recordings

\* the messages on which on_recording_update removes the cancel button
TerminalStatuses == { "completada", "cancelada", "error" }

\* the positions of status_log that hold a terminal message
TerminalEntries == { k \in 1..Len(status_log) : status_log[k] \in TerminalStatuses }

\* C22: every call to record_audio ends after at most duration*10 polling
\* steps and passes exactly one terminal status message (completada,
\* cancelada or Error) to its update_status callback
C22_OneTerminalStatus ==
    rec_pc = "returned" =>
        /\ poll_i <= duration * CHECKS_PER_SECOND
        /\ Cardinality(TerminalEntries) = 1

-----------------------------------------------------------------------------
(* The query among the candidates, checked under Spec *)

\* the target file is one of the *.wav files of the audio directory
QueryInDirectory == \E k \in Candidates : audio_dir[k] = target_file

\* C25: find_similar_audio does not exclude the query from the candidates:
\* if the target file is itself a .wav of the analyzer's audio directory and
\* its fingerprint has n >= 1 hashes, the result the call returns is
\* non-empty with a score >= n
C25_QueryNotExcluded ==
    (Returned /\ QueryInDirectory /\ Len(FingerprintOf(target_file)) >= 1) =>
        /\ similar_files # << >>
        /\ similar_files[1][2] >= Len(FingerprintOf(target_file))

\* the query is the second file of the directory, after a different file
\* that shares some of its hashes, and it is the one returned
C25_Witness ==
    /\ pc = "shown"
    /\ Len(audio_dir) = 2
    /\ audio_dir[2] = target_file
    /\ audio_dir[1] # target_file
    /\ ScoreOf(1) >= 1
    /\ Len(FingerprintOf(target_file)) >= 2
    /\ similar_files = << << 2, Len(FingerprintOf(target_file)) >> >>

-----------------------------------------------------------------------------
(* The spectrogram figure, checked under SpecFigure *)

\* C23: the spectrogram figure is shown at most once per AudioAnalyzer, for
\* any number of _huellas_digitales calls on it, including calls running
\* concurrently in several analysis threads that share the one analyzer
\* created by the UI
C23_FigureShownAtMostOnce == figures <= 1

-----------------------------------------------------------------------------
(* Thread affinity of the widgets, checked under SpecRecorder *)

\* C24: every update of a UI widget (status label, result list, spectrum
\* frame, dynamic cancel/stop buttons) is executed on the main UI thread;
\* worker threads only schedule UI work through root.after and never touch
\* widgets directly
C24_WidgetsOnMainThreadOnly ==
    \A w \in widget_touch : w[2] = "main"

====
